---- MODULE Spec2Model ----
(***************************************************************************)
(* Model of the workshop bundle's security dashboard                       *)
(* (app_1d_security_dashboard.py): the weighted questionnaire scoring, the *)
(* goal tracker and the flat-file persistence, run as Streamlit script     *)
(* reruns of one or more browser sessions over one JSON file; and of the   *)
(* breach checker, predictor, prime checker, JSON database, vision         *)
(* analytics and object detector pages, each with its own page state.      *)
(***************************************************************************)
EXTENDS Integers, Sequences, FiniteSets, TLC

(***************************************************************************)
(* Python floats.  A binary64 value v >= 0 is the record [sig, exp] with   *)
(* v = sig * 2^exp, sig a bit sequence (most significant bit first) that   *)
(* is empty for 0 and otherwise starts and ends with 1.  Bit sequences     *)
(* keep every intermediate integer small.                                  *)
(***************************************************************************)
Precision == 53

\* The binary digits of an integer 0 <= n < 2^30, most significant first.
ToBits(n) ==
    IF n = 0 THEN <<>>
    ELSE LET k == CHOOSE j \in 1..30 : 2^(j - 1) <= n /\ n < 2^j
         IN  [i \in 1..k |-> (n \div 2^(k - i)) % 2]

RECURSIVE BitsToInt(_)
BitsToInt(b) ==
    IF Len(b) = 0 THEN 0
    ELSE IF Len(b) = 1 THEN b[1]
    ELSE LET h == Len(b) \div 2
         IN  BitsToInt(SubSeq(b, 1, h)) * 2^(Len(b) - h) + BitsToInt(SubSeq(b, h + 1, Len(b)))

Zeros(k) ==
    [i \in 1..k |-> 0]

StripLeading(b) ==
    LET ones == {i \in 1..Len(b) : b[i] = 1}
    IN  IF ones = {} THEN <<>>
        ELSE SubSeq(b, CHOOSE i \in ones : \A j \in ones : i <= j, Len(b))

\* The canonical record of sig * 2^exp: leading and trailing zero bits dropped.
Canon(sig, exp) ==
    LET ones == {i \in 1..Len(sig) : sig[i] = 1}
    IN  IF ones = {} THEN [sig |-> <<>>, exp |-> 0]
        ELSE LET lo == CHOOSE i \in ones : \A j \in ones : i <= j
                 hi == CHOOSE i \in ones : \A j \in ones : j <= i
             IN  [sig |-> SubSeq(sig, lo, hi), exp |-> exp + Len(sig) - hi]

\* b + 1 on a bit sequence.
BitsInc(b) ==
    LET zeros == {i \in 1..Len(b) : b[i] = 0}
    IN  IF zeros = {} THEN <<1>> \o Zeros(Len(b))
        ELSE LET j == CHOOSE i \in zeros : \A k \in zeros : k <= i
             IN  [i \in 1..Len(b) |-> IF i < j THEN b[i] ELSE IF i = j THEN 1 ELSE 0]

\* bits * 2^exp (plus a nonzero tail below the last bit when sticky) rounded
\* to Precision significant bits, ties to even: the IEEE 754 default rounding.
\* bits has no leading zero.
RoundNearestEven(bits, exp, sticky) ==
    IF Len(bits) <= Precision THEN Canon(bits, exp)
    ELSE LET keep  == SubSeq(bits, 1, Precision)
             guard == bits[Precision + 1]
             rest  == sticky \/ \E i \in (Precision + 2)..Len(bits) : bits[i] = 1
             up    == guard = 1 /\ (rest \/ keep[Precision] = 1)
         IN  Canon(IF up THEN BitsInc(keep) ELSE keep, exp + Len(bits) - Precision)

\* 2^i mod m by repeated squaring.
RECURSIVE PowMod2(_, _)
PowMod2(i, m) ==
    IF i = 0 THEN 1 % m
    ELSE LET h == PowMod2(i \div 2, m)
         IN  (h * h * (IF i % 2 = 1 THEN 2 ELSE 1)) % m

\* The i-th binary digit after the point of n/d: floor(n * 2^i / d) mod 2.
QuotientBit(n, d, i) ==
    IF ((n % (2 * d)) * PowMod2(i, 2 * d)) % (2 * d) >= d THEN 1 ELSE 0

\* float(n) / float(d) for integers 0 <= n < 2^30, 0 < d < 2^14: the correctly
\* rounded quotient, from its first Precision + 1 significant digits and
\* whether anything nonzero follows them.
float_div(n, d) ==
    LET k    == Precision + 31
        bits == ToBits(n \div d) \o [i \in 1..k |-> QuotientBit(n, d, i)]
    IN  RoundNearestEven(StripLeading(bits), -k, ((n % d) * PowMod2(k, d)) % d # 0)

\* Product of a bit sequence and an integer 0 <= c < 2^10, in 20-bit limbs
\* from the least significant end.
RECURSIVE MulBits(_, _, _)
MulBits(b, c, carry) ==
    IF b = <<>> THEN ToBits(carry)
    ELSE LET n  == Len(b)
             k  == IF n > 20 THEN 20 ELSE n
             t  == BitsToInt(SubSeq(b, n - k + 1, n)) * c + carry
             lo == ToBits(t % 2^k)
         IN  MulBits(SubSeq(b, 1, n - k), c, t \div 2^k) \o Zeros(k - Len(lo)) \o lo

\* x * float(c) for a float x >= 0 and an integer 0 <= c < 2^10, correctly rounded.
float_mul(x, c) ==
    RoundNearestEven(StripLeading(MulBits(x.sig, c, 0)), x.exp, FALSE)

\* The float whose value is h/2: exact for every h used here.
FromHalves(h) ==
    Canon(ToBits(h), -1)

\* a <= b for bit sequences without leading zeros, as integers.
BitsLeq(a, b) ==
    IF Len(a) # Len(b) THEN Len(a) < Len(b)
    ELSE LET diff == {i \in 1..Len(a) : a[i] # b[i]}
         IN  diff = {} \/ a[CHOOSE i \in diff : \A j \in diff : i <= j] = 0

\* x * q = p over the reals, for a float x and integers p >= 0, 0 < q < 2^10.
FloatEqRatio(x, p, q) ==
    Canon(MulBits(x.sig, q, 0), x.exp) = Canon(ToBits(p), 0)

\* x <= n over the reals, for a float x and an integer n >= 0.
FloatLeqInt(x, n) ==
    IF x.sig = <<>> THEN TRUE
    ELSE IF x.exp >= 0 THEN BitsLeq(x.sig \o Zeros(x.exp), ToBits(n))
    ELSE BitsLeq(x.sig, ToBits(n) \o Zeros(-x.exp))

(***************************************************************************)
(* Static configuration and the values the page handles.                   *)
(***************************************************************************)
questions ==
    << [id |-> "unique_passwords", weight |-> 20, category |-> "Password Security"],
       [id |-> "password_manager", weight |-> 15, category |-> "Password Security"],
       [id |-> "two_factor_auth",  weight |-> 20, category |-> "Account Security"],
       [id |-> "software_updates", weight |-> 15, category |-> "System Security"],
       [id |-> "antivirus",        weight |-> 10, category |-> "System Security"],
       [id |-> "secure_browsing",  weight |-> 10, category |-> "Browsing Security"],
       [id |-> "wifi_security",    weight |-> 5,  category |-> "Network Security"],
       [id |-> "backup_strategy",  weight |-> 5,  category |-> "Data Protection"] >>

QuestionIds ==
    {questions[i].id : i \in 1..Len(questions)}

\* The options of every st.radio of the assessment.
RadioOptions ==
    {"Yes", "Partially", "No"}

\* Python's None, JSON's null and a file that does not exist.
None == [none |-> TRUE]
null == [null |-> TRUE]
NoFile == [absent |-> TRUE]

(***************************************************************************)
(* Bounds of the model.                                                    *)
(***************************************************************************)
MaxAssessments == 2
MaxGoals == 2

\* Dates on which a behaviour may take place (datetime.now()).
Dates ==
    { [year |-> 2026, month |-> 1,  day |-> 15],
      [year |-> 2026, month |-> 12, day |-> 15] }

\* Values the user drags a progress slider to (the slider offers 0..100).
SliderValues ==
    {0, 50, 100}

\* Contents of the Create Goal form when the button is pressed; the title
\* "" is the empty text input.
GoalForms ==
    { [title |-> "", description |-> "", category |-> "Password Security",
       priority |-> "Low"],
      [title |-> "Back up my laptop", description |-> "weekly",
       category |-> "Data Protection", priority |-> "Low"],
      [title |-> "Read the phishing guide", description |-> "",
       category |-> "Learning & Awareness", priority |-> "High"] }

AllYes ==
    [q \in QuestionIds |-> "Yes"]

\* Answer sheets the user selects in a session; st.radio starts on its first
\* option, so a session starts on AllYes.
SessionSheets ==
    { AllYes,
      [q \in QuestionIds |->
          IF q = "unique_passwords" THEN "Partially"
          ELSE IF q \in {"two_factor_auth", "software_updates", "antivirus"} THEN "Yes"
          ELSE "No"] }

(***************************************************************************)
(* Persistence adapter.                                                    *)
(***************************************************************************)
EmptyDocument ==
    [assessments |-> <<>>, goals |-> <<>>, habits |-> <<>>, last_assessment |-> None]

\* What is left of a file's text when a write stopped part-way: a proper
\* prefix of the dump of an object, which no JSON parser accepts.
Truncated(text) ==
    [truncated |-> text]

\* str(o) of a datetime.date: the hook json.dump is given as default= for
\* the objects it cannot serialise.
json_default(o) ==
    [str |-> <<o.year, o.month, o.day>>]

\* json.dump(data, f, indent=2, default=str): the document as JSON.  A
\* Python None is written as null and a date object left in a goal's
\* deadline as its str(); the other values the handlers build are strings,
\* numbers, booleans, dicts and lists.
json_dump(data) ==
    LET goals == data.goals
    IN  [data EXCEPT
            !.last_assessment = IF @ = None THEN null ELSE @,
            !.goals = [i \in 1..Len(goals) |->
                          [goals[i] EXCEPT
                              !.deadline = IF "year" \in DOMAIN @
                                           THEN json_default(@) ELSE @]]]

\* json.load: the parsed document; a JSON null is read as None.
json_load(text) ==
    [text EXCEPT !.last_assessment = IF @ = null THEN None ELSE @]

\* The body of the try: open() raises when the file is absent and
\* json.load raises on a text that is not JSON.
try_json_load(f) ==
    IF f = NoFile THEN [raises |-> "FileNotFoundError"]
    ELSE IF "truncated" \in DOMAIN f THEN [raises |-> "JSONDecodeError"]
    ELSE [returns |-> json_load(f)]

\* Mutant of load_security_data: the stored file is never read.
load_security_data_AlwaysEmpty(f) ==
    EmptyDocument

\* Mutant of load_security_data: only the absent file is caught, any other
\* exception leaves the function.
load_security_data_ExceptFileNotFound(f) ==
    LET r == try_json_load(f)
    IN  IF "returns" \in DOMAIN r THEN r.returns
        ELSE IF r.raises = "FileNotFoundError" THEN EmptyDocument
        ELSE r

\* The bare except returns the empty default document for whatever the try
\* raised.
load_security_data(f) ==
    LET r == try_json_load(f)
    IN  IF "raises" \in DOMAIN r THEN EmptyDocument ELSE r.returns

\* The file content after save_security_data(data): the whole document.
save_security_data(data) ==
    json_dump(data)

(***************************************************************************)
(* Assessment engine.  The loop's numbers are multiples of 0.5 far below   *)
(* 2^53, which binary64 holds exactly and adds exactly; they are kept in   *)
(* half points here (weight w is 2w halves, w * 0.5 is w halves).          *)
(***************************************************************************)
\* Mutant of score: every answer but Yes earns half the weight.
score_ElseHalf(q, response) ==
    IF response = "Yes" THEN 2 * q.weight ELSE q.weight

\* Mutant of score: Partially earns nothing.
score_PartiallyZero(q, response) ==
    IF response = "Yes" THEN 2 * q.weight ELSE 0

score(q, response) ==
    IF response = "Yes" THEN 2 * q.weight
    ELSE IF response = "Partially" THEN q.weight
    ELSE 0

RECURSIVE SumWeights(_, _)
SumWeights(qs, i) ==
    IF i > Len(qs) THEN 0 ELSE qs[i].weight + SumWeights(qs, i + 1)

\* Mutant of max_score: the first question's weight is left out.
max_score_SkipFirst ==
    SumWeights(questions, 2)

max_score ==
    SumWeights(questions, 1)

\* Mutant of ScoreStep: the category entry is reset on every question.
ScoreStep_ResetCategory(acc, q, response) ==
    LET s    == score(q, response)
        cats == (q.category :> [score |-> 0, max |-> 0]) @@ acc.category_scores
    IN  [total_score     |-> acc.total_score + s,
         category_scores |-> [cats EXCEPT ![q.category] =
                                 [score |-> @.score + s, max |-> @.max + q.weight]]]

\* One iteration of "for q in questions": the running total and the
\* category tracking.
ScoreStep(acc, q, response) ==
    LET s    == score(q, response)
        cats == IF q.category \in DOMAIN acc.category_scores
                THEN acc.category_scores
                ELSE acc.category_scores @@ (q.category :> [score |-> 0, max |-> 0])
    IN  [total_score     |-> acc.total_score + s,
         category_scores |-> [cats EXCEPT ![q.category] =
                                 [score |-> @.score + s, max |-> @.max + q.weight]]]

RECURSIVE ScoreLoop(_, _, _)
ScoreLoop(acc, i, responses) ==
    IF i > Len(questions) THEN acc
    ELSE ScoreLoop(ScoreStep(acc, questions[i], responses[questions[i].id]), i + 1, responses)

\* Mutant of percentage: the fraction is not scaled to a percentage.
percentage_Fraction(h) ==
    float_div(h, 2 * max_score)

\* percentage_score = (total_score / max_score) * 100, for a total of h halves.
percentage(h) ==
    float_mul(float_div(h, 2 * max_score), 100)

\* The percentages of all totals the loop can produce, worked out once.
PercentageTable ==
    [h \in 0..(2 * SumWeights(questions, 1)) |-> percentage(h)] @@ << >>

percentage_score(total_halves) ==
    PercentageTable[total_halves]

\* The strings of isoformat(), kept apart from the date objects.
datetime_isoformat(d) ==
    [str |-> <<d.year, d.month, d.day, "T">>]

date_isoformat(d) ==
    [str |-> <<d.year, d.month, d.day>>]

\* The assessment record built by the Calculate Security Score handler.
Assessment(responses, now) ==
    LET r == ScoreLoop([total_score |-> 0, category_scores |-> << >>], 1, responses)
    IN  [date            |-> datetime_isoformat(now),
         total_score     |-> percentage_score(r.total_score),
         responses       |-> responses,
         category_scores |-> [c \in DOMAIN r.category_scores |->
                                 [score |-> FromHalves(r.category_scores[c].score),
                                  max   |-> r.category_scores[c].max]]]

\* Mutant of SaveAssessment: last_assessment is not set.
SaveAssessment_NoLast(data, assessment) ==
    [data EXCEPT !.assessments = Append(@, assessment)]

\* security_data["assessments"].append(assessment) and
\* security_data["last_assessment"] = assessment.
SaveAssessment(data, assessment) ==
    [data EXCEPT !.assessments = Append(@, assessment),
                 !.last_assessment = assessment]

(***************************************************************************)
(* Goal tracker.                                                           *)
(***************************************************************************)
\* Mutant of NewGoal: ids count from 1.
NewGoal_IdFromOne(data, form, now) ==
    [id           |-> Len(data.goals) + 1,
     title        |-> form.title,
     description  |-> form.description,
     category     |-> form.category,
     deadline     |-> date_isoformat(now),
     priority     |-> form.priority,
     created_date |-> datetime_isoformat(now),
     completed    |-> FALSE,
     progress     |-> 0]

\* Mutant of NewGoal: the deadline is stored as the date object.
NewGoal_DateDeadline(data, form, now) ==
    [id           |-> Len(data.goals),
     title        |-> form.title,
     description  |-> form.description,
     category     |-> form.category,
     deadline     |-> now,
     priority     |-> form.priority,
     created_date |-> datetime_isoformat(now),
     completed    |-> FALSE,
     progress     |-> 0]

\* The goal dict built by the Create Goal handler.
NewGoal(data, form, now) ==
    [id           |-> Len(data.goals),
     title        |-> form.title,
     description  |-> form.description,
     category     |-> form.category,
     deadline     |-> date_isoformat(now),
     priority     |-> form.priority,
     created_date |-> datetime_isoformat(now),
     completed    |-> FALSE,
     progress     |-> 0]

\* Mutant of SetProgress: the slider never completes the goal.
SetProgress_NeverCompletes(goal, current_progress) ==
    [goal EXCEPT !.progress = current_progress]

\* Mutant of SetProgress: only a progress above 100 completes the goal.
SetProgress_Above100(goal, current_progress) ==
    [goal EXCEPT !.progress  = current_progress,
                 !.completed = IF current_progress > 100 THEN TRUE ELSE @]

\* The slider branch: goal['progress'] = current_progress and, from 100 on,
\* goal['completed'] = True.
SetProgress(goal, current_progress) ==
    [goal EXCEPT !.progress  = current_progress,
                 !.completed = IF current_progress >= 100 THEN TRUE ELSE @]

\* Mutant of SetCompleted: the progress is left as it was.
SetCompleted_KeepProgress(goal) ==
    [goal EXCEPT !.completed = TRUE]

\* The Complete button.
SetCompleted(goal) ==
    [goal EXCEPT !.completed = TRUE, !.progress = 100]

\* The suggestions worked out from the last assessment, in the order of its
\* responses (the order of the questions); the page offers the first three.
SuggestionFor ==
    [unique_passwords |->
        [title |-> "Implement Unique Passwords",
         description |-> "Create unique passwords for all important accounts",
         category |-> "Password Security"],
     password_manager |->
        [title |-> "Set Up Password Manager",
         description |-> "Research and install a reputable password manager",
         category |-> "Password Security"],
     two_factor_auth |->
        [title |-> "Enable 2FA on All Accounts",
         description |-> "Activate two-factor authentication on email, banking, and social media",
         category |-> "Account Security"]]

RECURSIVE Suggestions(_, _)
Suggestions(last_assessment, i) ==
    IF i > Len(questions) THEN <<>>
    ELSE LET q_id == questions[i].id
             rest == Suggestions(last_assessment, i + 1)
         IN  IF /\ last_assessment.responses[q_id] \in {"No", "Partially"}
                /\ q_id \in DOMAIN SuggestionFor
             THEN <<SuggestionFor[q_id]>> \o rest
             ELSE rest

DaysInMonth(year, month) ==
    IF month = 2 THEN (IF year % 4 = 0 /\ (year % 100 # 0 \/ year % 400 = 0) THEN 29 ELSE 28)
    ELSE IF month \in {4, 6, 9, 11} THEN 30 ELSE 31

\* date.replace(month=...) raises ValueError unless the result is a date.
ReplaceMonthRaises(d, month) ==
    month < 1 \/ month > 12 \/ d.day > DaysInMonth(d.year, month)

\* Mutant of SuggestedGoal: the id is taken from the wrong list.
SuggestedGoal_IdFromAssessments(data, suggestion, now) ==
    [id           |-> Len(data.assessments),
     title        |-> suggestion.title,
     description  |-> suggestion.description,
     category     |-> suggestion.category,
     deadline     |-> date_isoformat([now EXCEPT !.month = now.month + 1]),
     priority     |-> "High",
     created_date |-> datetime_isoformat(now),
     completed    |-> FALSE,
     progress     |-> 0]

\* The goal dict built by an Add Goal button of a suggestion.
SuggestedGoal(data, suggestion, now) ==
    [id           |-> Len(data.goals),
     title        |-> suggestion.title,
     description  |-> suggestion.description,
     category     |-> suggestion.category,
     deadline     |-> date_isoformat([now EXCEPT !.month = now.month + 1]),
     priority     |-> "High",
     created_date |-> datetime_isoformat(now),
     completed    |-> FALSE,
     progress     |-> 0]

(***************************************************************************)
(* Breach checker (app_1c_breach_checker.py).  A string that the code      *)
(* slices or compares by character is a sequence of one-character strings. *)
(***************************************************************************)
\* The passwords typed into the page.  The last two have SHA-1 digests that
\* agree in their first five hex characters and differ in the sixth.
Passwords == {"password", "hunter870", "hunter1471"}

\* hashlib.sha1(password.encode()).hexdigest() of these passwords.
sha1_hexdigest ==
    [password |->
        <<"5", "b", "a", "a", "6", "1", "e", "4", "c", "9", "b",
          "9", "3", "f", "3", "f", "0", "6", "8", "2", "2", "5",
          "0", "b", "6", "c", "f", "8", "3", "3", "1", "b", "7",
          "e", "e", "6", "8", "f", "d", "8">>,
     hunter870 |->
        <<"d", "5", "7", "3", "b", "3", "4", "3", "5", "3", "8",
          "f", "7", "3", "9", "a", "c", "7", "2", "1", "a", "3",
          "a", "c", "5", "6", "c", "7", "4", "4", "a", "8", "8",
          "9", "1", "8", "9", "f", "4", "3">>,
     hunter1471 |->
        <<"d", "5", "7", "3", "b", "5", "f", "1", "e", "8", "3",
          "b", "2", "9", "b", "3", "b", "2", "c", "e", "4", "c",
          "1", "8", "3", "a", "a", "e", "0", "1", "6", "f", "b",
          "b", "7", "e", "4", "0", "7", "f">>]

\* str.upper() on a string of hex characters.
upper(s) ==
    LET up == [a |-> "A", b |-> "B", c |-> "C", d |-> "D", e |-> "E", f |-> "F"]
    IN  [k \in 1..Len(s) |-> IF s[k] \in DOMAIN up THEN up[s[k]] ELSE s[k]]

\* sha1_hash = hashlib.sha1(password.encode()).hexdigest().upper()
sha1_hash(password) ==
    ([p \in Passwords |-> upper(sha1_hexdigest[p])] @@ << >>)[password]

\* prefix = sha1_hash[:5] and suffix = sha1_hash[5:]
prefix(password) ==
    SubSeq(sha1_hash(password), 1, 5)

suffix(password) ==
    SubSeq(sha1_hash(password), 6, Len(sha1_hash(password)))

\* Mutant of request: one more character of the digest goes into the URL.
request_SixCharacters(password) ==
    [method |-> "GET",
     url    |-> <<"https://api.pwnedpasswords.com/range/", SubSeq(sha1_hash(password), 1, 6)>>]

\* requests.get(f"https://api.pwnedpasswords.com/range/{prefix}"): the
\* request that goes out, its URL as the literal and the formatted value.
request(password) ==
    [method |-> "GET",
     url    |-> <<"https://api.pwnedpasswords.com/range/", prefix(password)>>]

Digits == <<"0", "1", "2", "3", "4", "5", "6", "7", "8", "9">>

\* The strings int() accepts, as far as the responses go: decimal digits.
IsDecimal(count) ==
    Len(count) > 0 /\ \A k \in 1..Len(count) : \E n \in 1..10 : Digits[n] = count[k]

\* int(count) of a string of decimal digits.
RECURSIVE int(_)
int(count) ==
    IF Len(count) = 0 THEN 0
    ELSE 10 * int(SubSeq(count, 1, Len(count) - 1))
             + (CHOOSE n \in 0..9 : Digits[n + 1] = count[Len(count)])

\* Mutant of scan: the loop does not stop at the first match.
RECURSIVE scan_NoBreak(_, _, _)
scan_NoBreak(hashes, k, sfx) ==
    IF k > Len(hashes) THEN [found |-> FALSE, breach_count |-> 0]
    ELSE LET fields == hashes[k]
             rest   == scan_NoBreak(hashes, k + 1, sfx)
         IN  IF Len(fields) # 2 THEN [raises |-> "ValueError"]
             ELSE IF fields[1] = sfx /\ ~IsDecimal(fields[2]) THEN [raises |-> "ValueError"]
             ELSE IF "raises" \in DOMAIN rest THEN rest
             ELSE IF fields[1] = sfx /\ ~rest.found
                  THEN [found |-> TRUE, breach_count |-> int(fields[2])]
                  ELSE rest

\* The loop over the response's lines from line k on.  A line is the list
\* of its fields, what hash_line.split(':') returns; unpacking it into
\* hash_suffix, count raises ValueError unless there are two fields.
RECURSIVE scan(_, _, _)
scan(hashes, k, sfx) ==
    IF k > Len(hashes) THEN [found |-> FALSE, breach_count |-> 0]
    ELSE LET fields == hashes[k]
         IN  IF Len(fields) # 2 THEN [raises |-> "ValueError"]
             ELSE IF fields[1] = sfx
                  THEN IF IsDecimal(fields[2])
                       THEN [found |-> TRUE, breach_count |-> int(fields[2])]
                       ELSE [raises |-> "ValueError"]
                  ELSE scan(hashes, k + 1, sfx)

\* What requests.get gives back: an exception, or a response with its
\* status code and its text as the list of lines (response.text.splitlines()).
\* The lines of a 200 response are SUFFIX:COUNT pairs, as the range API
\* sends them.
Counts == {<<"3">>, <<"1", "2">>}

ResponseLines ==
    {<<suffix("hunter870"), <<"3">>>>} \cup {<<suffix("hunter1471"), c>> : c \in Counts}

MaxLines == 2

Replies ==
    {[raises |-> "ConnectionError"], [status_code |-> 503, text |-> <<>>]}
        \cup {[status_code |-> 200, text |-> t] :
                  t \in UNION {[1..n -> ResponseLines] : n \in 0..MaxLines}}

\* A 200 response whose body is not the range API's: one line without a
\* colon, which split(':') returns as a single field.
MalformedReplies ==
    {[status_code |-> 200, text |-> << <<"<html>">> >>]}

\* The single check from the request's outcome on: what the page shows and
\* the locals found and breach_count where the run has bound them.
single_check(password, reply) ==
    IF "raises" \in DOMAIN reply THEN [message |-> "Network error"]
    ELSE IF reply.status_code = 200
    THEN LET r == scan(reply.text, 1, suffix(password))
         IN  IF "raises" \in DOMAIN r THEN [message |-> "An unexpected error occurred"]
             ELSE IF r.found
             THEN [message |-> "BREACH DETECTED", found |-> TRUE,
                   breach_count |-> r.breach_count]
             ELSE [message |-> "Good News", found |-> FALSE,
                   breach_count |-> r.breach_count]
    ELSE [message |-> "Unable to connect to breach database"]

\* The text area's content as its lines (batch_passwords.split('\n')), and
\* str.strip() on these lines.
MaxBatchLines == 2

BatchLines == Passwords \cup {"", " password "}

BatchTexts == UNION {[1..n -> BatchLines] : n \in 1..MaxBatchLines}

strip(line) ==
    IF line = " password " THEN "password" ELSE line

\* passwords = [pwd.strip() for pwd in batch_passwords.split('\n') if pwd.strip()]
RECURSIVE stripped(_, _)
stripped(lines, k) ==
    IF k > Len(lines) THEN <<>>
    ELSE IF strip(lines[k]) # "" THEN <<strip(lines[k])>> \o stripped(lines, k + 1)
    ELSE stripped(lines, k + 1)

\* password[:3] + '*' * (len(password) - 3)
mask ==
    [password |-> "pas*****", hunter870 |-> "hun******", hunter1471 |-> "hun*******"]

\* The values of a result's 'breached': True, False or the string 'Error',
\* and their truth value in an if.
Bool(b) == [bool |-> b]

Str(s) == [str |-> s]

truthy(v) ==
    IF "bool" \in DOMAIN v THEN v.bool ELSE v.str # ""

\* The results list after the loop body ran for one password.
batch_check(results, password, reply) ==
    LET error == [password |-> mask[password], breached |-> Str("Error"), count |-> 0]
    IN  IF "raises" \in DOMAIN reply THEN Append(results, error)
        ELSE IF reply.status_code = 200
        THEN LET r == scan(reply.text, 1, suffix(password))
             IN  IF "raises" \in DOMAIN r THEN Append(results, error)
                 ELSE Append(results, [password |-> mask[password],
                                       breached |-> Bool(r.found),
                                       count    |-> r.breach_count])
        ELSE results

\* The three metrics worked out from the results.
batch_summary(results) ==
    [safe_count     |-> Len(SelectSeq(results, LAMBDA r : ~truthy(r.breached))),
     breached_count |-> Len(SelectSeq(results, LAMBDA r : /\ truthy(r.breached)
                                                          /\ r.breached # Str("Error"))),
     error_count    |-> Len(SelectSeq(results, LAMBDA r : r.breached = Str("Error")))]

\* The page before anything was typed or pressed.  The outputs of a run
\* (response, outcome, passwords, results, summary) are gone with the next
\* run; show_batch is session state and sent records, as history, every
\* request the current run has made and the password it was made for.
BreachStart ==
    [show_batch     |-> FALSE,
     pc             |-> "idle",
     check_password |-> "",
     response       |-> None,
     outcome        |-> None,
     passwords      |-> <<>>,
     i              |-> 0,
     results        |-> <<>>,
     summary        |-> None,
     sent           |-> {}]

NewRun(b) ==
    [b EXCEPT !.response = None, !.outcome = None, !.passwords = <<>>,
              !.i = 0, !.results = <<>>, !.summary = None, !.sent = {}]

(***************************************************************************)
(* Number sequence predictor (app_3d_predictor.py).  The text of the input *)
(* is the list of its comma-separated tokens, seq.split(","), and a token  *)
(* is the list of its characters.                                          *)
(***************************************************************************)
MaxTokens == 3

Tokens == {<<"1">>, <<" ", "3">>, <<"1", "0">>, <<>>, <<"a">>}

SequenceTexts == UNION {[1..n -> Tokens] : n \in 1..MaxTokens}

\* x.strip() on a token: the blanks at both ends are dropped.
RECURSIVE token_strip(_)
token_strip(x) ==
    IF x = <<>> THEN x
    ELSE IF Head(x) = " " THEN token_strip(Tail(x))
    ELSE IF x[Len(x)] = " " THEN token_strip(SubSeq(x, 1, Len(x) - 1))
    ELSE x

\* float(x) for the tokens above: a string of decimal digits is its value,
\* any other string raises ValueError.
float(x) ==
    IF IsDecimal(x) THEN [returns |-> int(x)] ELSE [raises |-> "ValueError"]

\* nums = [float(x.strip()) for x in seq.split(",") if x.strip()] from
\* token k on: the list, or the exception of the first token that raises.
RECURSIVE parse_nums(_, _)
parse_nums(tokens, k) ==
    IF k > Len(tokens) THEN [returns |-> <<>>]
    ELSE IF token_strip(tokens[k]) = <<>> THEN parse_nums(tokens, k + 1)
    ELSE LET x    == float(token_strip(tokens[k]))
             rest == parse_nums(tokens, k + 1)
         IN  IF "raises" \in DOMAIN x THEN x
             ELSE IF "raises" \in DOMAIN rest THEN rest
             ELSE [returns |-> <<x.returns>> \o rest.returns]

RECURSIVE Sum(_, _)
Sum(f, n) ==
    IF n = 0 THEN 0 ELSE f[n] + Sum(f, n - 1)

\* LinearRegression().fit(X, y).predict([[len(nums)]]) with X = 0..n-1: the
\* value of the least-squares line at n, as the exact fraction num/den
\* (the rounding of the floats is left out).
predict_next(nums) ==
    LET n   == Len(nums)
        sx  == Sum([k \in 1..n |-> k - 1], n)
        sxx == Sum([k \in 1..n |-> (k - 1) * (k - 1)], n)
        sy  == Sum(nums, n)
        sxy == Sum([k \in 1..n |-> (k - 1) * nums[k]], n)
        d   == n * sxx - sx * sx
        m   == n * sxy - sx * sy
    IN  [num |-> sy * d - m * sx + m * n * n, den |-> n * d]

\* What one run of the script shows for the text in the input.
predictor_run(seq) ==
    IF seq = << <<>> >> THEN [shown |-> "nothing"]
    ELSE LET nums == parse_nums(seq, 1)
         IN  IF "raises" \in DOMAIN nums THEN nums
             ELSE IF Len(nums.returns) >= 2
             THEN [success |-> predict_next(nums.returns)]
             ELSE [warning |-> "Enter at least 2 numbers for prediction."]

PredictorStart ==
    [seq |-> << <<>> >>, outcome |-> [shown |-> "nothing"]]

(***************************************************************************)
(* Prime checker (app_3a_prime_checker.py).  A step of the explanation is  *)
(* a record of the sentence's kind and the numbers put into it.            *)
(***************************************************************************)
MaxNumber == 10000

\* int(math.sqrt(n)): the square root of an integer below 2^52 is rounded
\* correctly, so the truncation is the integer square root.
RECURSIVE isqrt_from(_, _)
isqrt_from(n, r) ==
    IF (r + 1) * (r + 1) > n THEN r ELSE isqrt_from(n, r + 1)

int_sqrt(n) ==
    isqrt_from(n, 0)

\* The for loop of is_prime over range(i, stop) and the lines after it.
RECURSIVE trial_division(_, _, _, _)
trial_division(n, i, stop, steps) ==
    IF i >= stop
    THEN <<TRUE, Append(steps, [text |-> "No divisors found. n is prime!", n |-> n])>>
    ELSE LET checked == Append(steps, [text |-> "Check if n is divisible by i",
                                       n |-> n, i |-> i])
         IN  IF n % i = 0
             THEN <<FALSE, Append(checked, [text |-> "n is divisible by i (not prime)",
                                            n |-> n, i |-> i])>>
             ELSE trial_division(n, i + 1, stop, checked)

\* Mutant of is_prime: the loop stops one short of the square root.
is_prime_ExclusiveRoot(n) ==
    IF n < 2 THEN <<FALSE, <<>> >>
    ELSE trial_division(n, 2, int_sqrt(n), <<>>)

\* is_prime(n): the pair (verdict, steps).
is_prime(n) ==
    IF n < 2 THEN <<FALSE, <<>> >>
    ELSE trial_division(n, 2, int_sqrt(n) + 1, <<>>)

\* The page on its first run: the number input shows its minimum, and the
\* button has not been pressed.
PrimeStart ==
    [num |-> 2, checked |-> FALSE, prime |-> FALSE, steps |-> <<>>]

(***************************************************************************)
(* JSON database (app_3e_json_database_simple.py).  The file my_db.json    *)
(* holds a JSON array of objects; names, e-mails and whole ages are the    *)
(* same values before json.dump and after json.load.                       *)
(***************************************************************************)
MaxRecords == 4

\* What the three inputs can hold when Add Record is pressed.  The page
\* checks nothing: the same record can be added twice, the name can be empty.
RecordInputs ==
    {[name |-> "Ann", age |-> 30, email |-> "ann@example.org"],
     [name |-> "Bob", age |-> 0, email |-> ""],
     [name |-> "", age |-> 120, email |-> "x@example.org"]}

\* json.dump(db, f, indent=2): the file holds the JSON array of the records.
db_dump(db) ==
    [array |-> db]

\* Lines 16-23: the list in the file, and [] when there is no file.
db_load(f) ==
    IF "array" \in DOMAIN f THEN f.array ELSE <<>>

\* Mutant of pop: the last record is removed, whatever the index.
pop_Last(db, i) ==
    SubSeq(db, 1, Len(db) - 1)

\* db.pop(i) for the index i of enumerate, counted from 0.
pop(db, i) ==
    SubSeq(db, 1, i) \o SubSeq(db, i + 2, Len(db))

\* The page on its first run: no file yet.  ledger is history: every record
\* ever added, in the order of the presses, with alive = FALSE once the
\* Delete button of its row was pressed.
DatabaseStart ==
    [file |-> NoFile, ledger |-> <<>>]

(***************************************************************************)
(* Vision analytics (app_2d_vision_analytics.py).  A Python value that the *)
(* page tests or measures is a tagged record: None, [list |-> <<...>>] or  *)
(* [str |-> "..."]; a dict is a function on the keys it holds; a score is  *)
(* given in hundredths.                                                    *)
(***************************************************************************)
ModelNames == {"classifier", "detector", "captioner"}

List(l) == [list |-> l]

\* bool(v) of such a value.
py_bool(v) ==
    IF "none" \in DOMAIN v THEN FALSE
    ELSE IF "list" \in DOMAIN v THEN v.list # <<>>
    ELSE v.str # ""

\* d.get(key, default)
get(d, key, default) ==
    IF key \in DOMAIN d THEN d[key] ELSE default

\* len(v): None has no length.
len(v) ==
    IF "none" \in DOMAIN v THEN [raises |-> "TypeError"]
    ELSE IF "list" \in DOMAIN v THEN [returns |-> Len(v.list)]
    ELSE [returns |-> 1]

\* What load_all_models can return: each pipeline, or None where loading
\* failed.  TRUE stands for a loaded pipeline.
LoadedModels == [ModelNames -> BOOLEAN]

\* What a call of a loaded pipeline can do: raise, or return its list.
Raises == [raises |-> "RuntimeError"]

Inferences ==
    [classifier : {Raises, List(<<[label |-> "tabby", score |-> 90]>>)},
     detector   : {Raises, List(<<>>), List(<<[label |-> "cat", score |-> 95]>>)},
     captioner  : {Raises, List(<<>>), List(<<[generated_text |-> "a cat on a sofa"]>>)}]

\* One try block of perform_comprehensive_analysis: the entry it leaves in
\* results, as a function on one key, or on none when the model is None.
analysis_entry(key, loaded, inference) ==
    IF ~loaded THEN <<>>
    ELSE IF "raises" \in DOMAIN inference THEN key :> None
    ELSE IF key = "caption"
    THEN key :> (IF inference.list # <<>>
                 THEN Str(inference.list[1].generated_text) ELSE None)
    ELSE key :> inference

perform_comprehensive_analysis(models, inference) ==
    analysis_entry("classification", models["classifier"], inference.classifier)
        @@ analysis_entry("detection", models["detector"], inference.detector)
        @@ analysis_entry("caption", models["captioner"], inference.captioner)

\* The part of the report that is built from the results.
create_analysis_report(results) ==
    [primary_classification |->
         IF py_bool(get(results, "classification", None))
         THEN Str(results["classification"].list[1].label) ELSE None,
     objects_detected |->
         IF py_bool(get(results, "detection", None))
         THEN Len(results["detection"].list) ELSE 0,
     scene_description |->
         IF py_bool(get(results, "caption", None)) THEN results["caption"] ELSE None]

\* The Analysis Dashboard section for the stored results: what its metrics
\* and tabs show, or the exception that ends the run.  Objects Detected is
\* len(results.get('detection', [])).
analysis_dashboard(results) ==
    LET objects_detected == len(get(results, "detection", List(<<>>)))
        section(key) == IF py_bool(get(results, key, None))
                        THEN "shown" ELSE "not available"
    IN  IF "raises" \in DOMAIN objects_detected THEN objects_detected
        ELSE [primary_classification |->
                  IF py_bool(get(results, "classification", None))
                  THEN results["classification"].list[1].label ELSE "N/A",
              objects_detected |-> objects_detected.returns,
              tabs |-> [classification |-> section("classification"),
                        detection      |-> section("detection"),
                        caption        |-> section("caption")]]

\* The text of Copy Report to Clipboard, or the exception its f-string raises:
\* .get('classification', [{}])[0].get('label', 'N/A'),
\* len(.get('detection', [])) and .get('caption', 'N/A').
copy_report(results) ==
    LET classification   == get(results, "classification", List(<<[nolabel |-> TRUE]>>))
        objects_detected == len(get(results, "detection", List(<<>>)))
    IN  IF "none" \in DOMAIN classification THEN [raises |-> "TypeError"]
        ELSE IF classification.list = <<>> THEN [raises |-> "IndexError"]
        ELSE IF "raises" \in DOMAIN objects_detected THEN objects_detected
        ELSE [primary_classification |->
                  IF "label" \in DOMAIN classification.list[1]
                  THEN classification.list[1].label ELSE "N/A",
              objects_detected |-> objects_detected.returns,
              scene_description |-> get(results, "caption", Str("N/A"))]

Missing == [missing |-> TRUE]

\* The page on its first run: nothing uploaded, the models not loaded yet,
\* nothing in the session state, nothing rendered below the uploader.
VisionStart ==
    [uploaded         |-> FALSE,
     models           |-> None,
     analysis_results |-> Missing,
     analysis_report  |-> Missing,
     dashboard        |-> None,
     report_text      |-> None]

(***************************************************************************)
(* Object detector (app_2b_object_detector.py).  Scores and thresholds are *)
(* given in hundredths.                                                    *)
(***************************************************************************)
MaxDetections == 3

DetectedObjects ==
    {[label |-> "cat", score |-> 95],
     [label |-> "dog", score |-> 45],
     [label |-> "chair", score |-> 20]}

\* What the call of the detection pipeline can do: raise, or return a list.
DetectionLists ==
    UNION {[1..n -> DetectedObjects] : n \in 0..MaxDetections}

DetectorReplies ==
    {Raises} \cup {List(l) : l \in DetectionLists}

\* Positions of the slider (0.1 to 1.0); it starts at 0.5.
Thresholds == {10, 50, 100}

\* A name of the script that no statement of the run has assigned.
Unbound == [unbound |-> TRUE]

Bound(v) == [value |-> v]

\* Lines 143-252 for the detections in the session state: the number of
\* objects shown, or the NameError of reading a name that is not bound.
\* The threshold is read for every detection at line 148, and at line 252
\* when nothing passes the filter.
detection_results(detections, min_confidence) ==
    IF detections # <<>> /\ min_confidence = Unbound THEN [raises |-> "NameError"]
    ELSE LET filtered_detections ==
                 SelectSeq(detections, LAMBDA d : d.score >= min_confidence.value)
         IN  IF filtered_detections # <<>>
             THEN [objects_found |-> Len(filtered_detections),
                   threshold     |-> min_confidence.value]
             ELSE IF min_confidence = Unbound THEN [raises |-> "NameError"]
             ELSE [objects_found |-> 0, threshold |-> min_confidence.value]

\* The page on its first run: no file, so the slider is not rendered and
\* min_confidence is not assigned; the model is not loaded yet.
DetectorStart ==
    [uploaded       |-> FALSE,
     min_confidence |-> Unbound,
     model          |-> None,
     detections     |-> Missing,
     results        |-> None]

(***************************************************************************)
(* State.  Every interaction of a browser session reruns the script: the   *)
(* run starts by loading the file into security_data and then executes the *)
(* handler of the widget that was used.                                    *)
(***************************************************************************)
VARIABLES
    file,           \* content of security_dashboard_data.json, or NoFile
    security_data,  \* per session: the script run's working copy
    responses,      \* per session: the state of the eight radios
    pc,             \* per session: "idle" between runs, "loaded" after line 41
    today,          \* the date datetime.now() falls on
    created,        \* history: how many goals the handlers have created
    breach,         \* the breach checker page: its session and its last run
    predictor,      \* the predictor page: the text entered and what the run showed
    prime_checker,  \* the prime checker page: the number and what the run showed
    database,       \* the JSON database page: my_db.json and the history of presses
    vision,         \* the vision analytics page: its session and its last run
    object_detector \* the object detector page: its session and its last run

dashboard_vars == <<file, security_data, responses, pc, today, created>>

page_vars == <<predictor, prime_checker, database, vision, object_detector>>

vars == <<file, security_data, responses, pc, today, created, breach, page_vars>>

\* Every page of the bundle before anything was entered.
PagesStart ==
    /\ predictor = PredictorStart
    /\ prime_checker = PrimeStart
    /\ database = DatabaseStart
    /\ vision = VisionStart
    /\ object_detector = DetectorStart

\* Browser sessions: those of a behaviour are the domain of pc.
SessionIds == {1, 2}

Sessions == DOMAIN pc

InitSessions(S) ==
    /\ file = NoFile
    /\ security_data = [s \in S |-> load_security_data(NoFile)]
    /\ responses = [s \in S |-> AllYes]
    /\ pc = [s \in S |-> "idle"]
    /\ today \in Dates
    /\ created = 0
    /\ breach = BreachStart
    /\ PagesStart

Init ==
    InitSessions({1})

\* A script run starts: security_data = load_security_data().
Rerun(s) ==
    /\ s \in Sessions
    /\ pc[s] = "idle"
    /\ security_data' = [security_data EXCEPT ![s] = load_security_data(file)]
    /\ pc' = [pc EXCEPT ![s] = "loaded"]
    /\ UNCHANGED <<file, responses, today, created, breach, page_vars>>

\* The run was caused by the radios: no button is pressed, nothing is stored.
SelectAnswers(s, sheet) ==
    /\ s \in Sessions
    /\ pc[s] = "loaded"
    /\ responses' = [responses EXCEPT ![s] = sheet]
    /\ pc' = [pc EXCEPT ![s] = "idle"]
    /\ UNCHANGED <<file, security_data, today, created, breach, page_vars>>

\* Calculate Security Score: score, append, set last_assessment, save.
CalculateSecurityScore(s) ==
    /\ s \in Sessions
    /\ pc[s] = "loaded"
    /\ Len(security_data[s].assessments) < MaxAssessments
    /\ LET data == SaveAssessment(security_data[s], Assessment(responses[s], today))
       IN  /\ security_data' = [security_data EXCEPT ![s] = data]
           /\ file' = save_security_data(data)
    /\ pc' = [pc EXCEPT ![s] = "idle"]
    /\ UNCHANGED <<responses, today, created, breach, page_vars>>

\* Mutant of CreateGoal: the document is saved before the goal is appended.
CreateGoal_SaveBeforeAppend(s, form) ==
    /\ s \in Sessions
    /\ pc[s] = "loaded"
    /\ Len(security_data[s].goals) < MaxGoals
    /\ IF form.title # ""
       THEN LET data == [security_data[s] EXCEPT
                            !.goals = Append(@, NewGoal(security_data[s], form, today))]
            IN  /\ security_data' = [security_data EXCEPT ![s] = data]
                /\ file' = save_security_data(security_data[s])
                /\ created' = created + 1
       ELSE UNCHANGED <<security_data, file, created>>
    /\ pc' = [pc EXCEPT ![s] = "idle"]
    /\ UNCHANGED <<responses, today, breach, page_vars>>

\* Mutant of CreateGoal: the title is not looked at.
CreateGoal_AnyTitle(s, form) ==
    /\ s \in Sessions
    /\ pc[s] = "loaded"
    /\ Len(security_data[s].goals) < MaxGoals
    /\ LET data == [security_data[s] EXCEPT
                        !.goals = Append(@, NewGoal(security_data[s], form, today))]
       IN  /\ security_data' = [security_data EXCEPT ![s] = data]
           /\ file' = save_security_data(data)
           /\ created' = created + 1
    /\ pc' = [pc EXCEPT ![s] = "idle"]
    /\ UNCHANGED <<responses, today, breach, page_vars>>

\* Create Goal: "if st.button(...) and goal_title" appends and saves; with an
\* empty title the run goes on and stores nothing.
CreateGoal(s, form) ==
    /\ s \in Sessions
    /\ pc[s] = "loaded"
    /\ Len(security_data[s].goals) < MaxGoals
    /\ IF form.title # ""
       THEN LET data == [security_data[s] EXCEPT
                            !.goals = Append(@, NewGoal(security_data[s], form, today))]
            IN  /\ security_data' = [security_data EXCEPT ![s] = data]
                /\ file' = save_security_data(data)
                /\ created' = created + 1
       ELSE UNCHANGED <<security_data, file, created>>
    /\ pc' = [pc EXCEPT ![s] = "idle"]
    /\ UNCHANGED <<responses, today, breach, page_vars>>

\* Mutant of UpdateProgress: the working copy is changed and not saved.
UpdateProgress_NoSave(s, g, p) ==
    /\ s \in Sessions
    /\ pc[s] = "loaded"
    /\ g \in 1..Len(security_data[s].goals)
    /\ ~security_data[s].goals[g].completed
    /\ p # security_data[s].goals[g].progress
    /\ LET data == [security_data[s] EXCEPT !.goals[g] = SetProgress(@, p)]
       IN  security_data' = [security_data EXCEPT ![s] = data]
    /\ pc' = [pc EXCEPT ![s] = "idle"]
    /\ UNCHANGED <<file, responses, today, created, breach, page_vars>>

\* The slider of the active goal at index g (from 1) was moved to p.
UpdateProgress(s, g, p) ==
    /\ s \in Sessions
    /\ pc[s] = "loaded"
    /\ g \in 1..Len(security_data[s].goals)
    /\ ~security_data[s].goals[g].completed
    /\ p # security_data[s].goals[g].progress
    /\ LET data == [security_data[s] EXCEPT !.goals[g] = SetProgress(@, p)]
       IN  /\ security_data' = [security_data EXCEPT ![s] = data]
           /\ file' = save_security_data(data)
    /\ pc' = [pc EXCEPT ![s] = "idle"]
    /\ UNCHANGED <<responses, today, created, breach, page_vars>>

\* Mutant of CompleteGoal: every active goal is completed, not only the
\* one whose button was pressed.
CompleteGoal_AllActive(s, g) ==
    /\ s \in Sessions
    /\ pc[s] = "loaded"
    /\ g \in 1..Len(security_data[s].goals)
    /\ ~security_data[s].goals[g].completed
    /\ LET data == [security_data[s] EXCEPT
                        !.goals = [h \in 1..Len(@) |->
                                      IF @[h].completed THEN @[h] ELSE SetCompleted(@[h])]]
       IN  /\ security_data' = [security_data EXCEPT ![s] = data]
           /\ file' = save_security_data(data)
    /\ pc' = [pc EXCEPT ![s] = "idle"]
    /\ UNCHANGED <<responses, today, created, breach, page_vars>>

\* The Complete button of the active goal at index g (from 1).
CompleteGoal(s, g) ==
    /\ s \in Sessions
    /\ pc[s] = "loaded"
    /\ g \in 1..Len(security_data[s].goals)
    /\ ~security_data[s].goals[g].completed
    /\ LET data == [security_data[s] EXCEPT !.goals[g] = SetCompleted(@)]
       IN  /\ security_data' = [security_data EXCEPT ![s] = data]
           /\ file' = save_security_data(data)
    /\ pc' = [pc EXCEPT ![s] = "idle"]
    /\ UNCHANGED <<responses, today, created, breach, page_vars>>

\* The Add Goal button of the i-th offered suggestion.  Building the goal
\* dict raises ValueError when next month has no such day (or is month 13):
\* the run ends there and nothing is appended or saved.
AddSuggestedGoal(s, i) ==
    /\ s \in Sessions
    /\ pc[s] = "loaded"
    /\ Len(security_data[s].goals) < MaxGoals
    /\ security_data[s].last_assessment # None
    /\ LET suggestions == Suggestions(security_data[s].last_assessment, 1)
       IN  /\ i \in 1..Len(suggestions)
           /\ i <= 3
           /\ IF ReplaceMonthRaises(today, today.month + 1)
              THEN UNCHANGED <<security_data, file, created>>
              ELSE LET data == [security_data[s] EXCEPT
                                   !.goals = Append(@, SuggestedGoal(security_data[s],
                                                                     suggestions[i], today))]
                   IN  /\ security_data' = [security_data EXCEPT ![s] = data]
                       /\ file' = save_security_data(data)
                       /\ created' = created + 1
    /\ pc' = [pc EXCEPT ![s] = "idle"]
    /\ UNCHANGED <<responses, today, breach, page_vars>>

Next ==
    \/ \E s \in SessionIds : Rerun(s)
    \/ \E s \in SessionIds, sheet \in SessionSheets : SelectAnswers(s, sheet)
    \/ \E s \in SessionIds : CalculateSecurityScore(s)
    \/ \E s \in SessionIds, form \in GoalForms : CreateGoal(s, form)
    \/ \E s \in SessionIds, g \in 1..MaxGoals, p \in SliderValues : UpdateProgress(s, g, p)
    \/ \E s \in SessionIds, g \in 1..MaxGoals : CompleteGoal(s, g)
    \/ \E s \in SessionIds, i \in 1..3 : AddSuggestedGoal(s, i)

Spec ==
    Init /\ [][Next]_vars

\* The scoring on its own: one session whose radios hold any of the 3^8 answer
\* sheets, and the Calculate Security Score button.
InitScore ==
    /\ file = NoFile
    /\ security_data = [s \in {1} |-> load_security_data(NoFile)]
    /\ responses \in [{1} -> [QuestionIds -> RadioOptions]]
    /\ pc = [s \in {1} |-> "idle"]
    /\ today \in Dates
    /\ created = 0
    /\ breach = BreachStart
    /\ PagesStart

NextScore ==
    \/ \E s \in SessionIds : Rerun(s)
    \/ \E s \in SessionIds : CalculateSecurityScore(s)

SpecScore ==
    InitScore /\ [][NextScore]_vars

\* The scoring code on the answers it is handed: the radios of one session
\* hold AllYes with at most one answer replaced, possibly by a value that is
\* none of the three options.
AnswerValues ==
    RadioOptions \cup {"Maybe"}

InitEngine ==
    /\ file = NoFile
    /\ security_data = [s \in {1} |-> load_security_data(NoFile)]
    /\ responses \in [{1} -> {[AllYes EXCEPT ![q] = v] : q \in QuestionIds, v \in AnswerValues}]
    /\ pc = [s \in {1} |-> "idle"]
    /\ today \in Dates
    /\ created = 0
    /\ breach = BreachStart
    /\ PagesStart

SpecEngine ==
    InitEngine /\ [][NextScore]_vars

\* The breach checker page.  A press of Check This Password: nothing happens
\* on an empty input; otherwise one request goes out and the run shows what
\* came of it.
CheckThisPassword(password, reply) ==
    /\ breach.pc = "idle"
    /\ IF password # ""
       THEN breach' = [NewRun(breach) EXCEPT
                          !.check_password = password,
                          !.response = reply,
                          !.outcome = single_check(password, reply),
                          !.sent = @ \cup {[password |-> password,
                                            request  |-> request(password)]}]
       ELSE breach' = [NewRun(breach) EXCEPT !.check_password = password]
    /\ UNCHANGED <<dashboard_vars, page_vars>>

\* The Batch Check button shows the batch interface from this run on.
ShowBatch ==
    /\ breach.pc = "idle"
    /\ breach' = [NewRun(breach) EXCEPT !.show_batch = TRUE]
    /\ UNCHANGED <<dashboard_vars, page_vars>>

\* A press of Check All Passwords on a text area holding these lines: the
\* loop starts when the text and the list of stripped lines are not empty.
CheckAllPasswords(lines) ==
    /\ breach.pc = "idle"
    /\ breach.show_batch
    /\ LET passwords == stripped(lines, 1)
       IN  IF lines # <<"">> /\ passwords # <<>>
           THEN breach' = [NewRun(breach) EXCEPT !.pc = "batch", !.passwords = passwords]
           ELSE breach' = NewRun(breach)
    /\ UNCHANGED <<dashboard_vars, page_vars>>

\* One pass of the loop: the request for passwords[i] and its result.
BatchStep(reply) ==
    /\ breach.pc = "batch"
    /\ breach.i < Len(breach.passwords)
    /\ LET password == breach.passwords[breach.i + 1]
       IN  breach' = [breach EXCEPT
                         !.results = batch_check(@, password, reply),
                         !.i = @ + 1,
                         !.sent = @ \cup {[password |-> password,
                                           request  |-> request(password)]}]
    /\ UNCHANGED <<dashboard_vars, page_vars>>

\* After the loop: the metrics are shown and the run ends.
BatchResults ==
    /\ breach.pc = "batch"
    /\ breach.i = Len(breach.passwords)
    /\ breach' = [breach EXCEPT !.pc = "idle", !.summary = batch_summary(breach.results)]
    /\ UNCHANGED <<dashboard_vars, page_vars>>

NextBreach ==
    \/ \E password \in Passwords, reply \in Replies :
          CheckThisPassword(password, reply)
    \/ CheckThisPassword("", None)
    \/ ShowBatch
    \/ \E lines \in BatchTexts : CheckAllPasswords(lines)
    \/ \E reply \in Replies \cup MalformedReplies : BatchStep(reply)
    \/ BatchResults

\* The page reads no date: one day is enough.
InitBreach ==
    /\ InitSessions({1})
    /\ today.month = 1

SpecBreach ==
    InitBreach /\ [][NextBreach]_vars

\* Loading on its own: a session starts on a store that an earlier use of
\* the dashboard left behind (absent, a saved document, or a save that
\* stopped part-way) and reruns its script without pressing a button.
SavedDocuments ==
    LET assessed == {SaveAssessment(EmptyDocument, Assessment(sheet, d)) :
                        sheet \in SessionSheets, d \in Dates}
        created_goals(doc) ==
            {NewGoal(doc, form, d) : form \in {f \in GoalForms : f.title # ""}, d \in Dates}
        stored_goals(doc) ==
            UNION {{g, SetProgress(g, 50), SetCompleted(g)} : g \in created_goals(doc)}
        with_goal(doc) == {[doc EXCEPT !.goals = Append(@, g)] : g \in stored_goals(doc)}
    IN  assessed \cup UNION {with_goal(doc) : doc \in assessed \cup {EmptyDocument}}

StoredFiles ==
    {NoFile}
        \cup {save_security_data(D) : D \in SavedDocuments}
        \cup {Truncated(save_security_data(D)) : D \in SavedDocuments}

InitLoad ==
    /\ file \in StoredFiles
    /\ security_data = [s \in {1} |-> None]
    /\ responses = [s \in {1} |-> AllYes]
    /\ pc = [s \in {1} |-> "idle"]
    /\ today \in Dates
    /\ created = 0
    /\ breach = BreachStart
    /\ PagesStart

NextLoad ==
    \/ \E s \in SessionIds : Rerun(s)
    \/ \E s \in SessionIds, sheet \in SessionSheets : SelectAnswers(s, sheet)

SpecLoad ==
    InitLoad /\ [][NextLoad]_vars

\* Two browser sessions on the same file, each with its own radios: the
\* first holds AllYes and the second the other sheet.  Lost updates let the
\* handlers create goals without end, so the creations are capped, and a
\* session calculates its score only while it has loaded no assessment.
MaxCreated == 3

InitTwo ==
    /\ file = NoFile
    /\ security_data = [s \in {1, 2} |-> load_security_data(NoFile)]
    /\ responses = [s \in {1, 2} |->
                        IF s = 1 THEN AllYes
                        ELSE CHOOSE sheet \in SessionSheets : sheet # AllYes]
    /\ pc = [s \in {1, 2} |-> "idle"]
    /\ today \in {d \in Dates : d.month = 1}
    /\ created = 0
    /\ breach = BreachStart
    /\ PagesStart

NextTwo ==
    \/ \E s \in SessionIds : Rerun(s)
    \/ \E s \in SessionIds :
          security_data[s].last_assessment = None /\ CalculateSecurityScore(s)
    \/ \E s \in SessionIds, form \in GoalForms :
          created < MaxCreated /\ CreateGoal(s, form)
    \/ \E s \in SessionIds, i \in 1..3 :
          created < MaxCreated /\ AddSuggestedGoal(s, i)

SpecTwo ==
    InitTwo /\ [][NextTwo]_vars

\* The pages below read no date and no dashboard file: one day is enough.
InitPage ==
    /\ InitSessions({1})
    /\ today.month = 1

(***************************************************************************)
(* The predictor page: a run of the script on the text in the input.       *)
(***************************************************************************)
EnterSequence(seq) ==
    /\ predictor' = [seq |-> seq, outcome |-> predictor_run(seq)]
    /\ UNCHANGED <<dashboard_vars, breach, prime_checker, database, vision, object_detector>>

NextPredictor ==
    \E seq \in SequenceTexts : EnterSequence(seq)

SpecPredictor ==
    InitPage /\ [][NextPredictor]_vars

(***************************************************************************)
(* The prime checker page.  The number input steps by 1 between 2 and      *)
(* 100000; changing it reruns the script without the button, so the        *)
(* verdict of an earlier press is gone.                                    *)
(***************************************************************************)
StepUp ==
    /\ prime_checker.num < MaxNumber
    /\ prime_checker.num < 100000
    /\ prime_checker' = [PrimeStart EXCEPT !.num = prime_checker.num + 1]
    /\ UNCHANGED <<dashboard_vars, breach, predictor, database, vision, object_detector>>

StepDown ==
    /\ prime_checker.num > 2
    /\ prime_checker' = [PrimeStart EXCEPT !.num = prime_checker.num - 1]
    /\ UNCHANGED <<dashboard_vars, breach, predictor, database, vision, object_detector>>

\* The Check Prime button: prime, steps = is_prime(num).
CheckPrime ==
    /\ LET r == is_prime(prime_checker.num)
       IN  prime_checker' = [prime_checker EXCEPT
                                !.checked = TRUE, !.prime = r[1], !.steps = r[2]]
    /\ UNCHANGED <<dashboard_vars, breach, predictor, database, vision, object_detector>>

NextPrime ==
    \/ StepUp
    \/ StepDown
    \/ CheckPrime

SpecPrime ==
    InitPage /\ [][NextPrime]_vars

(***************************************************************************)
(* The JSON database page.  Every run loads db from the file first.        *)
(***************************************************************************)
\* The position in the ledger of the k-th record that is still alive.
RECURSIVE AliveAt(_, _, _)
AliveAt(ledger, k, from) ==
    IF ledger[from].alive
    THEN (IF k = 1 THEN from ELSE AliveAt(ledger, k - 1, from + 1))
    ELSE AliveAt(ledger, k, from + 1)

\* The Add Record button: db.append(...), json.dump(db, f), st.rerun().
AddRecord(record) ==
    /\ Len(database.ledger) < MaxRecords
    /\ LET db == db_load(database.file)
       IN  database' = [file   |-> db_dump(Append(db, record)),
                        ledger |-> Append(database.ledger,
                                          [record |-> record, alive |-> TRUE])]
    /\ UNCHANGED <<dashboard_vars, breach, predictor, prime_checker, vision, object_detector>>

\* The Delete button of the row with index i (from 0): db.pop(i),
\* json.dump(db, f), st.rerun().
DeleteRecord(i) ==
    /\ LET db == db_load(database.file)
       IN  /\ i < Len(db)
           /\ database' = [file   |-> db_dump(pop(db, i)),
                            ledger |-> [database.ledger EXCEPT
                                           ![AliveAt(database.ledger, i + 1, 1)].alive = FALSE]]
    /\ UNCHANGED <<dashboard_vars, breach, predictor, prime_checker, vision, object_detector>>

NextDatabase ==
    \/ \E record \in RecordInputs : AddRecord(record)
    \/ \E i \in 0..(MaxRecords - 1) : DeleteRecord(i)

SpecDatabase ==
    InitPage /\ [][NextDatabase]_vars

(***************************************************************************)
(* The vision analytics page.  Every run ends with the sections below the  *)
(* uploader: the dashboard of the stored results and the export buttons.   *)
(***************************************************************************)
\* The run from line 186 on, for the session state v has by then.
vision_render(v, copy_pressed) ==
    IF v.analysis_results = Missing
    THEN [v EXCEPT !.dashboard = None, !.report_text = None]
    ELSE LET d == analysis_dashboard(v.analysis_results)
         IN  [v EXCEPT !.dashboard = d,
                       !.report_text = IF "raises" \notin DOMAIN d /\ copy_pressed
                                       THEN copy_report(v.analysis_results)
                                       ELSE None]

\* A file is put into the uploader, or taken out of it.
UploadImage(uploaded) ==
    /\ uploaded # vision.uploaded
    /\ vision' = vision_render([vision EXCEPT !.uploaded = uploaded], FALSE)
    /\ UNCHANGED <<dashboard_vars, breach, predictor, prime_checker, database, object_detector>>

\* The Perform Complete Analysis button.  load_all_models is cached: the
\* first call decides which models there are.
PerformCompleteAnalysis(loaded, inference) ==
    /\ vision.uploaded
    /\ IF vision.models = None THEN TRUE ELSE loaded = vision.models
    /\ LET results == perform_comprehensive_analysis(loaded, inference)
           stored  == IF \E name \in ModelNames : loaded[name]
                      THEN [vision EXCEPT
                               !.models = loaded,
                               !.analysis_results = results,
                               !.analysis_report = create_analysis_report(results)]
                      ELSE [vision EXCEPT !.models = loaded]
       IN  vision' = vision_render(stored, FALSE)
    /\ UNCHANGED <<dashboard_vars, breach, predictor, prime_checker, database, object_detector>>

\* The Copy Report to Clipboard button, which the last run has rendered.
CopyReport ==
    /\ vision.analysis_report # Missing
    /\ "raises" \notin DOMAIN vision.dashboard
    /\ vision' = vision_render(vision, TRUE)
    /\ UNCHANGED <<dashboard_vars, breach, predictor, prime_checker, database, object_detector>>

NextVision ==
    \/ \E uploaded \in BOOLEAN : UploadImage(uploaded)
    \/ \E loaded \in LoadedModels, inference \in Inferences :
          PerformCompleteAnalysis(loaded, inference)
    \/ CopyReport

SpecVision ==
    InitPage /\ [][NextVision]_vars

(***************************************************************************)
(* The object detector page.  Every run ends with the results section for  *)
(* the detections in the session state.                                    *)
(***************************************************************************)
detector_render(d) ==
    [d EXCEPT !.results = IF d.detections = Missing THEN None
                          ELSE detection_results(d.detections.list, d.min_confidence)]

\* A file is put into the uploader: the slider is rendered at its default.
UploadFile ==
    /\ ~object_detector.uploaded
    /\ object_detector' = detector_render([object_detector EXCEPT
                                              !.uploaded = TRUE,
                                              !.min_confidence = Bound(50)])
    /\ UNCHANGED <<dashboard_vars, breach, predictor, prime_checker, database, vision>>

\* The file is taken out of the uploader: the block of line 90 is skipped,
\* the slider is not rendered and min_confidence is not assigned.
RemoveFile ==
    /\ object_detector.uploaded
    /\ object_detector' = detector_render([object_detector EXCEPT
                                              !.uploaded = FALSE,
                                              !.min_confidence = Unbound])
    /\ UNCHANGED <<dashboard_vars, breach, predictor, prime_checker, database, vision>>

MoveThreshold(threshold) ==
    /\ object_detector.uploaded
    /\ object_detector.min_confidence # Bound(threshold)
    /\ object_detector' = detector_render([object_detector EXCEPT
                                              !.min_confidence = Bound(threshold)])
    /\ UNCHANGED <<dashboard_vars, breach, predictor, prime_checker, database, vision>>

\* The Detect Objects button.  load_detector is cached: the first call
\* decides whether there is a model.  A call that raises stores nothing.
DetectObjects(loaded, reply) ==
    /\ object_detector.uploaded
    /\ IF object_detector.model = None THEN TRUE ELSE Bool(loaded) = object_detector.model
    /\ object_detector' =
           detector_render([object_detector EXCEPT
                               !.model = Bool(loaded),
                               !.detections = IF loaded /\ "list" \in DOMAIN reply
                                              THEN reply ELSE @])
    /\ UNCHANGED <<dashboard_vars, breach, predictor, prime_checker, database, vision>>

NextDetector ==
    \/ UploadFile
    \/ RemoveFile
    \/ \E threshold \in Thresholds : MoveThreshold(threshold)
    \/ \E loaded \in BOOLEAN, reply \in DetectorReplies : DetectObjects(loaded, reply)

SpecDetector ==
    InitPage /\ [][NextDetector]_vars

(***************************************************************************)
(* Properties.                                                             *)
(***************************************************************************)
RECURSIVE SumOf(_, _)
SumOf(f, S) ==
    IF S = {} THEN 0
    ELSE LET x == CHOOSE y \in S : TRUE
         IN  f[x] + SumOf(f, S \ {x})

QuestionIndices ==
    1..Len(questions)

\* The credit of a question in half points: its weight for Yes, half its
\* weight for Partially, 0 for No.
Credit(i, answers) ==
    CASE answers[questions[i].id] = "Yes"       -> 2 * questions[i].weight
      [] answers[questions[i].id] = "Partially" -> questions[i].weight
      [] answers[questions[i].id] = "No"        -> 0

CreditSum(I, answers) ==
    SumOf([i \in I |-> Credit(i, answers)], I)

WeightSum(I) ==
    SumOf([i \in I |-> questions[i].weight], I)

AssessmentsOf(doc) ==
    {doc.assessments[i] : i \in 1..Len(doc.assessments)}
        \cup (IF doc.last_assessment \in {None, null} THEN {} ELSE {doc.last_assessment})

\* Every assessment record held in the file or in a session's working copy.
StoredAssessments ==
    (IF file = NoFile THEN {} ELSE AssessmentsOf(file))
        \cup UNION {AssessmentsOf(security_data[s]) : s \in Sessions}

AnsweredAll(a, answer) ==
    \A q \in QuestionIds : a.responses[q] = answer

\* C1: the eight questions' weights sum to 100, and an assessment whose
\* answers are all Yes has total_score exactly 100.
C1_AllYesIs100 ==
    /\ Len(questions) = 8
    /\ WeightSum(QuestionIndices) = 100
    /\ \A a \in StoredAssessments :
           AnsweredAll(a, "Yes") => FloatEqRatio(a.total_score, 100, 1)

C1_Witness ==
    \E a \in StoredAssessments : AnsweredAll(a, "Yes")

\* C2: an assessment whose answers are all No has total_score exactly 0.
C2_AllNoIs0 ==
    \A a \in StoredAssessments :
        AnsweredAll(a, "No") => FloatEqRatio(a.total_score, 0, 1)

C2_Witness ==
    \E a \in StoredAssessments : AnsweredAll(a, "No")

OnePartially(a, i) ==
    \A j \in QuestionIndices :
        a.responses[questions[j].id] = IF j = i THEN "Partially" ELSE "Yes"

\* C3: with question i of weight w answered Partially and all others Yes,
\* total_score is exactly 100 - w/2, that is (200 - w)/2.
C3_OnePartially ==
    \A a \in StoredAssessments : \A i \in QuestionIndices :
        OnePartially(a, i) => FloatEqRatio(a.total_score, 200 - questions[i].weight, 2)

C3_Witness ==
    \E a \in StoredAssessments : \E i \in QuestionIndices :
        questions[i].weight = 5 /\ OnePartially(a, i)

\* C4: for every answer sheet total_score equals
\* 100 * (sum of credits) / (sum of weights) exactly.
C4_TotalIsExactPercentage ==
    \A a \in StoredAssessments :
        FloatEqRatio(a.total_score, 100 * CreditSum(QuestionIndices, a.responses),
                     2 * WeightSum(QuestionIndices))

\* C5: every stored assessment has 0 <= total_score <= 100 (a float of this
\* model is never negative, so the lower bound is that total_score exists).
C5_TotalInRange ==
    \A a \in StoredAssessments :
        /\ a.total_score.sig \in Seq({0, 1})
        /\ FloatLeqInt(a.total_score, 100)

C5_Witness ==
    \E a \in StoredAssessments :
        /\ AnsweredAll(a, "Yes")
        /\ \A n \in 0..99 : ~FloatLeqInt(a.total_score, n)

Categories ==
    {questions[i].category : i \in QuestionIndices}

InCategory(c) ==
    {i \in QuestionIndices : questions[i].category = c}

\* C6: category_scores has exactly the categories of the questions as keys, and
\* for each the sum of its questions' credits as score and the sum of their
\* weights as max.
C6_CategoryScores ==
    \A a \in StoredAssessments :
        /\ DOMAIN a.category_scores = Categories
        /\ \A c \in Categories :
               /\ FloatEqRatio(a.category_scores[c].score, CreditSum(InCategory(c), a.responses), 2)
               /\ a.category_scores[c].max = WeightSum(InCategory(c))

C6_Witness ==
    \E a \in StoredAssessments :
        /\ a.responses["unique_passwords"] = "Partially"
        /\ a.responses["password_manager"] = "Yes"
        /\ a.responses["antivirus"] = "No"

Persisted ==
    load_security_data(file)

IsPrefix(old, new) ==
    Len(old) <= Len(new) /\ SubSeq(new, 1, Len(old)) = old

\* C8: a press of Calculate Security Score appends exactly one record at the
\* end of the history, in the working copy and in the file, sets last_assessment
\* to that record and leaves the file holding the whole resulting document.
C8_PressAppendsOne ==
    [][\A s \in SessionIds : CalculateSecurityScore(s) =>
          LET old  == security_data[s].assessments
              new  == security_data'[s].assessments
          IN  /\ Len(new) = Len(old) + 1
              /\ IsPrefix(old, new)
              /\ security_data'[s].last_assessment = new[Len(new)]
              /\ new[Len(new)].responses = responses[s]
              /\ Persisted' = security_data'[s]
              /\ Len(Persisted'.assessments) = Len(Persisted.assessments) + 1
              /\ IsPrefix(Persisted.assessments, Persisted'.assessments)
              /\ Persisted'.goals = Persisted.goals]_vars

C8_Witness ==
    /\ Len(Persisted.assessments) = 2
    /\ Persisted.assessments[1] # Persisted.assessments[2]
    /\ Persisted.last_assessment = Persisted.assessments[2]

NeverShrinks(old, new) ==
    /\ IsPrefix(old.assessments, new.assessments)
    /\ Len(old.goals) <= Len(new.goals)

\* C9: in one session no step makes the assessments list or the goals list
\* shorter or changes an assessment already in the history, in the working
\* copy and in the file.
C9_NothingDeleted ==
    [][/\ NeverShrinks(Persisted, Persisted')
       /\ \A s \in Sessions : NeverShrinks(security_data[s], security_data'[s])]_vars

C9_Witness ==
    /\ Len(Persisted.assessments) = 2
    /\ Len(Persisted.goals) = 2
    /\ Persisted.goals[1].completed
    /\ Persisted.goals[2].progress = 50
    /\ \A s \in Sessions : pc[s] = "loaded" /\ security_data[s] = Persisted

GoalAdded(old, new) ==
    Len(new.goals) > Len(old.goals)

\* C10: starting from the empty store, after N goal creations the goals list
\* has length N and the k-th created goal (from 0) has id k; a goal has
\* progress 0 and completed false when it is created.
C10_CreationIsMonotonic ==
    /\ [](/\ Len(Persisted.goals) = created
          /\ \A k \in 1..Len(Persisted.goals) : Persisted.goals[k].id = k - 1)
    /\ [][GoalAdded(Persisted, Persisted') =>
             /\ created' = created + 1
             /\ Len(Persisted'.goals) = Len(Persisted.goals) + 1
             /\ IsPrefix(Persisted.goals, Persisted'.goals)
             /\ LET goal == Persisted'.goals[Len(Persisted'.goals)]
                IN  /\ goal.id = created
                    /\ goal.progress = 0
                    /\ goal.completed = FALSE]_vars

C10_Witness ==
    /\ created = 2
    /\ Len(Persisted.goals) = 2
    /\ Persisted.goals[1].title = "Back up my laptop"
    /\ Persisted.goals[2].title = "Implement Unique Passwords"
    /\ Persisted.goals[1].progress = 50

\* C11: in every reachable state of the persisted document, suggested-goal
\* adds and two interleaving sessions included, every goal's id equals its
\* index in the goals list, so the ids are pairwise distinct.
C11_IdsEqualIndex ==
    LET goals == Persisted.goals
    IN  /\ \A i \in 1..Len(goals) : goals[i].id = i - 1
        /\ \A i, j \in 1..Len(goals) : goals[i].id = goals[j].id => i = j

\* Two goals are stored, the second one added from a suggestion, after a
\* goal of the other session was overwritten.
C11_Witness ==
    /\ DOMAIN pc = {1, 2}
    /\ Len(Persisted.goals) = 2
    /\ Persisted.goals[2].title = "Set Up Password Manager"
    /\ created = 3

\* C12: a press of Create Goal with an empty title creates no goal, leaves
\* the working copy and the file as they were (nothing is saved: an absent
\* file stays absent), and a press with any other title appends one goal.
C12_EmptyTitleCreatesNothing ==
    [][\A s \in SessionIds, form \in GoalForms :
          CreateGoal(s, form) =>
              /\ form.title = "" =>
                    /\ security_data' = security_data
                    /\ file' = file
                    /\ created' = created
              /\ form.title # "" =>
                    /\ Len(security_data'[s].goals) = Len(security_data[s].goals) + 1
                    /\ Len(Persisted'.goals) = Len(security_data[s].goals) + 1
                    /\ created' = created + 1]_vars

\* The run has loaded a stored document with one goal, and the press with
\* the empty title can be made.
C12_Witness ==
    /\ pc[1] = "loaded"
    /\ file # NoFile
    /\ Len(security_data[1].goals) = 1
    /\ \E form \in GoalForms : form.title = "" /\ ENABLED CreateGoal(1, form)

\* C13: a progress update of an active goal to p in 0..100 sets the goal's
\* progress to p in the working copy and in the file; from p >= 100 on the
\* goal is completed and below 100 it stays not completed; no update step
\* exists for a goal that is not in the list.
C13_ProgressUpdate ==
    [][\A s \in SessionIds, g \in 1..(MaxGoals + 1), p \in SliderValues :
          UpdateProgress(s, g, p) =>
              /\ g \in 1..Len(security_data[s].goals)
              /\ ~security_data[s].goals[g].completed
              /\ p \in 0..100
              /\ security_data'[s].goals[g].progress = p
              /\ Persisted'.goals[g].progress = p
              /\ security_data'[s].goals[g].completed = (p >= 100)
              /\ Persisted'.goals[g].completed = (p >= 100)]_vars

\* Both outcomes are stored side by side: a goal moved to 100 and completed,
\* and a goal moved to 50 and still active.
C13_Witness ==
    /\ Len(Persisted.goals) = 2
    /\ Persisted.goals[1].progress = 100 /\ Persisted.goals[1].completed
    /\ Persisted.goals[2].progress = 50 /\ ~Persisted.goals[2].completed

\* C14: Complete on an active goal leaves that goal with progress 100 and
\* completed true in the persisted document, whatever its progress was.
C14_CompleteSetsBoth ==
    [][\A s \in SessionIds, g \in 1..MaxGoals :
          CompleteGoal(s, g) =>
              /\ ~security_data[s].goals[g].completed
              /\ Persisted'.goals[g].completed
              /\ Persisted'.goals[g].progress = 100]_vars

\* A goal whose progress is 50 is active and loaded (Complete can be
\* pressed on it), next to a goal that is already completed at 100.
C14_Witness ==
    /\ pc[1] = "loaded"
    /\ Len(security_data[1].goals) = 2
    /\ security_data[1].goals[1].progress = 50
    /\ ENABLED CompleteGoal(1, 1)
    /\ security_data[1].goals[2].completed
    /\ security_data[1].goals[2].progress = 100

\* C17: with one session, whenever an operation has finished the file holds
\* exactly the session's whole working copy (no file is the empty default
\* document, which is what the session then holds).
C17_FileIsWorkingCopy ==
    /\ DOMAIN pc = {1}
    /\ Persisted = security_data[1]
    /\ file # NoFile => file = save_security_data(security_data[1])

\* An assessment and two goals, one of them completed, are in the working
\* copy and in the file after the operations that made them.
C17_Witness ==
    /\ pc[1] = "idle"
    /\ file # NoFile
    /\ Len(security_data[1].assessments) = 1
    /\ Len(security_data[1].goals) = 2
    /\ security_data[1].goals[1].completed
    /\ security_data[1].goals[2].progress = 50

\* C18: with two sessions on one file, every step that changes the file is
\* the end of one session's run and leaves in the file exactly that
\* session's working copy, whatever the file held and whatever the other
\* session holds: the last saver wins and the step reports nothing.
C18_LastWriterWins ==
    [][file' # file =>
          \E s \in DOMAIN pc :
              /\ pc[s] = "loaded" /\ pc'[s] = "idle"
              /\ Persisted' = security_data'[s]
              /\ file' = save_security_data(security_data'[s])
              /\ \A t \in DOMAIN pc \ {s} :
                    security_data'[t] = security_data[t] /\ pc'[t] = pc[t]]_vars

\* A lost update: both sessions loaded the empty store, each created its own
\* goal and saved; the file holds the second session's goal only.
C18_Witness ==
    /\ DOMAIN pc = {1, 2}
    /\ pc[1] = "idle" /\ pc[2] = "idle"
    /\ created = 2
    /\ Len(security_data[1].goals) = 1
    /\ security_data[1].goals[1].title = "Back up my laptop"
    /\ Persisted = security_data[2]
    /\ Len(Persisted.goals) = 1
    /\ Persisted.goals[1].title = "Read the phishing guide"

\* C15: load_security_data never raises: on an absent file and on a file
\* that is not JSON (a truncated one) it returns the empty default document
\* (assessments [], goals [], habits [], last_assessment None), and on a
\* file holding a saved document it returns that document.
C15_LoadNeverRaises ==
    \A s \in DOMAIN pc :
        security_data[s] # None =>
            IF file = NoFile \/ "truncated" \in DOMAIN file
            THEN security_data[s] = [assessments |-> <<>>, goals |-> <<>>,
                                     habits |-> <<>>, last_assessment |-> None]
            ELSE \E D \in SavedDocuments :
                    file = save_security_data(D) /\ security_data[s] = D

\* A run has loaded a truncated file that held a goal.
C15_Witness ==
    /\ pc[1] = "loaded"
    /\ "truncated" \in DOMAIN file
    /\ Len(file.truncated.goals) = 1
    /\ security_data[1] = EmptyDocument

\* C16: for every document D the dashboard has saved, the file is the dump
\* of D, loading it returns D, and saving what was loaded writes the same
\* file again.
C16_SaveLoadRoundTrip ==
    file # NoFile =>
        \E s \in DOMAIN pc :
            LET D == security_data[s]
            IN  /\ file = save_security_data(D)
                /\ load_security_data(file) = D
                /\ save_security_data(load_security_data(file)) = file

\* The saved document holds an assessment (so last_assessment is not null)
\* and a goal with its deadline.
C16_Witness ==
    /\ file # NoFile
    /\ Persisted.last_assessment # None
    /\ Len(Persisted.goals) = 1
    /\ Persisted.goals[1].deadline = date_isoformat(today)

\* C19: after a single-password check that got a 200 response, if some line
\* of the response has the suffix that is the last 35 hex characters of the
\* password's uppercase SHA-1 digest, found is true and breach_count is the
\* count on the first such line; if no line has it, found is false and
\* breach_count is 0.
C19_SingleCheckLookup ==
    ("status_code" \in DOMAIN breach.response /\ breach.response.status_code = 200) =>
        LET digest  == upper(sha1_hexdigest[breach.check_password])
            last35  == SubSeq(digest, Len(digest) - 34, Len(digest))
            lines   == breach.response.text
            matches == {k \in 1..Len(lines) : lines[k][1] = last35}
            first   == CHOOSE k \in matches : \A m \in matches : k <= m
            number  == (<<"3">> :> 3) @@ (<<"1", "2">> :> 12)
        IN  /\ Len(last35) = 35
            /\ IF matches # {}
               THEN /\ breach.outcome.found
                    /\ breach.outcome.breach_count = number[lines[first][2]]
               ELSE /\ ~breach.outcome.found
                    /\ breach.outcome.breach_count = 0

\* The response lists the password's suffix twice with different counts and
\* the check reports the first one.
C19_Witness ==
    /\ breach.check_password = "hunter1471"
    /\ "status_code" \in DOMAIN breach.response
    /\ breach.response.status_code = 200
    /\ breach.response.text = <<<<suffix("hunter870"), <<"3">>>>,
                                 <<suffix("hunter1471"), <<"1", "2">>>>>>
    /\ breach.outcome.found
    /\ breach.outcome.breach_count = 12

\* C20: every request of a run, single or batch, is the GET of the range
\* URL followed by the first five hex characters of the password's uppercase
\* SHA-1 digest and nothing else, so two passwords whose digests share these
\* five characters produce identical requests and neither the password nor
\* the other 35 characters are in a request.
C20_RequestFromPrefixOnly ==
    LET first5(password) == SubSeq(upper(sha1_hexdigest[password]), 1, 5)
    IN  /\ \A e \in breach.sent :
              e.request = [method |-> "GET",
                           url |-> <<"https://api.pwnedpasswords.com/range/",
                                     first5(e.password)>>]
        /\ \A e1, e2 \in breach.sent :
              first5(e1.password) = first5(e2.password) => e1.request = e2.request

\* A batch run has sent the requests of two different passwords whose
\* digests share the prefix and differ in the other 35 characters.
C20_Witness ==
    /\ breach.pc = "batch"
    /\ \E e1, e2 \in breach.sent :
          /\ e1.password = "hunter870" /\ e2.password = "hunter1471"
          /\ e1.request = e2.request
          /\ suffix(e1.password) # suffix(e2.password)

\* A reply with which the check of this password has failed: the request
\* raised, the API answered with another status than 200, or the handling
\* of the response's lines raised.
FailedFor(password, reply) ==
    \/ "raises" \in DOMAIN reply
    \/ reply.status_code # 200
    \/ "raises" \in DOMAIN scan(reply.text, 1, suffix(password))

\* C21: in batch mode, when the request or the response handling for one
\* password fails, a result with breached 'Error' and count 0 is recorded
\* for that password and the loop goes on with the next password.
C21_FailureRecordsError ==
    [][\A reply \in Replies \cup MalformedReplies :
          (BatchStep(reply) /\ FailedFor(breach.passwords[breach.i + 1], reply))
              => /\ breach'.results =
                        Append(breach.results,
                               [password |-> mask[breach.passwords[breach.i + 1]],
                                breached |-> Str("Error"),
                                count    |-> 0])
                 /\ breach'.i = breach.i + 1
                 /\ breach'.pc = "batch"]_vars

\* C28: after a batch check the three figures Safe, Breached and Errors add
\* up to the number of passwords submitted (the non-blank lines).
C28_CountsAddUp ==
    breach.summary # None
        => breach.summary.safe_count + breach.summary.breached_count
               + breach.summary.error_count = Len(breach.passwords)

\* C27: Add Goal on a suggested goal succeeds on every calendar date: it
\* appends exactly one goal with id = len(goals), priority High, progress 0,
\* completed false and a deadline in the following month, and saves it.
C27_SuggestedGoalAdded ==
    [][\A s \in SessionIds, i \in 1..3 :
          AddSuggestedGoal(s, i) =>
              LET n == Len(security_data[s].goals)
                  goals == security_data'[s].goals
              IN  /\ Len(goals) = n + 1
                  /\ SubSeq(goals, 1, n) = security_data[s].goals
                  /\ goals[n + 1].id = n
                  /\ goals[n + 1].priority = "High"
                  /\ goals[n + 1].progress = 0
                  /\ ~goals[n + 1].completed
                  /\ goals[n + 1].deadline.str[2] = (today.month % 12) + 1
                  /\ Persisted'.goals = goals]_vars

\* completed and progress == 100 go together in every goal of the list.
GoalsConsistent(goals) ==
    \A g \in 1..Len(goals) : goals[g].completed <=> (goals[g].progress = 100)

SameButProgressOf(g, old, new) ==
    /\ new.assessments = old.assessments
    /\ new.last_assessment = old.last_assessment
    /\ Len(new.goals) = Len(old.goals)
    /\ \A h \in 1..Len(old.goals) :
           IF h = g
           THEN [new.goals[h] EXCEPT !.progress = 0, !.completed = FALSE]
                    = [old.goals[h] EXCEPT !.progress = 0, !.completed = FALSE]
           ELSE new.goals[h] = old.goals[h]

\* C30: moving a goal's slider or completing the goal changes only that
\* goal's progress and completed fields; every other goal, the goal's other
\* fields, the assessments and last_assessment stay as they were, in the
\* session's copy and in the stored document.
C30_OnlyProgressAndCompleted ==
    [][\A s \in SessionIds, g \in 1..MaxGoals :
          (CompleteGoal(s, g) \/ \E p \in SliderValues : UpdateProgress(s, g, p))
              => /\ SameButProgressOf(g, security_data[s], security_data'[s])
                 /\ SameButProgressOf(g, Persisted, Persisted')]_vars

\* After an assessment, the second of two goals is completed while the first
\* one still stands at progress 0, untouched.
C30_Witness ==
    /\ Len(Persisted.goals) = 2
    /\ Persisted.goals[2].completed
    /\ Persisted.goals[2].progress = 100
    /\ ~Persisted.goals[1].completed
    /\ Persisted.goals[1].progress = 0
    /\ Persisted.last_assessment # None
    /\ Len(Persisted.assessments) = 1

\* The text holds a token that is not a number, or fewer than two numbers.
NoSequence(seq) ==
    LET nums == parse_nums(seq, 1)
    IN  "raises" \in DOMAIN nums \/ Len(nums.returns) < 2

\* C22: a sequence with a non-numeric token or with fewer than 2 numbers
\* gives a warning and no prediction, and no input ends the run in an
\* unhandled error.
C22_WarningNeverError ==
    /\ "raises" \notin DOMAIN predictor.outcome
    /\ (predictor.seq # << <<>> >> /\ NoSequence(predictor.seq))
           => "warning" \in DOMAIN predictor.outcome

\* n has no divisor strictly between 1 and n.
NoProperDivisor(n) ==
    \A d \in 2..(n - 1) : n % d # 0

\* C24: for a number from 2 up, is_prime returns True exactly when the
\* number has no divisor strictly between 1 and itself, and the last step of
\* the explanation states that verdict; below 2 it returns False and no
\* steps.
C24_IsPrimeCorrect ==
    /\ \A n \in -2..1 : is_prime(n) = <<FALSE, <<>> >>
    /\ prime_checker.checked
           => LET n     == prime_checker.num
                  steps == prime_checker.steps
              IN  /\ prime_checker.prime <=> NoProperDivisor(n)
                  /\ Len(steps) > 0
                  /\ steps[Len(steps)].n = n
                  /\ prime_checker.prime
                         <=> steps[Len(steps)].text = "No divisors found. n is prime!"
                  /\ ~prime_checker.prime
                         <=> /\ steps[Len(steps)].text = "n is divisible by i (not prime)"
                             /\ n % steps[Len(steps)].i = 0
                             /\ steps[Len(steps)].i \in 2..(n - 1)

\* The square of a prime was checked: its only divisor is the last number
\* the loop tries.
C24_Witness ==
    /\ prime_checker.checked
    /\ prime_checker.num = 49
    /\ ~prime_checker.prime
    /\ prime_checker.steps[Len(prime_checker.steps)].i = 7

\* The records of the ledger that were not deleted, in insertion order.
RECURSIVE Remaining(_, _)
Remaining(ledger, k) ==
    IF k > Len(ledger) THEN <<>>
    ELSE IF ledger[k].alive THEN <<ledger[k].record>> \o Remaining(ledger, k + 1)
    ELSE Remaining(ledger, k + 1)

\* C25: after any sequence of Add Record and Delete presses the file holds
\* exactly the records that were added and not deleted, in insertion order.
C25_FileIsAddedMinusDeleted ==
    database.ledger # <<>> => database.file = db_dump(Remaining(database.ledger, 1))

\* Ann was added three times and the row in the middle was deleted, then
\* Bob was added: the file holds Ann, Ann, Bob.
C25_Witness ==
    /\ Len(database.ledger) = 4
    /\ \A k \in 1..3 : database.ledger[k].record.name = "Ann"
    /\ database.ledger[4].record.name = "Bob"
    /\ ~database.ledger[2].alive
    /\ \A k \in {1, 3, 4} : database.ledger[k].alive
    /\ Len(database.file.array) = 3
    /\ database.file.array[3].name = "Bob"

\* Some model's inference raised in the analysis whose results are stored:
\* its entry is None.
InferenceFailed ==
    /\ vision.analysis_results # Missing
    /\ \E key \in DOMAIN vision.analysis_results :
           vision.analysis_results[key] = None

\* C23: when the inference of one model raised during the complete analysis,
\* every later rendering finishes without an error and shows that model's
\* section as not available.
C23_FailedModelNotAvailable ==
    InferenceFailed
        => /\ "raises" \notin DOMAIN vision.dashboard
           /\ "raises" \notin DOMAIN vision.report_text
           /\ \A key \in DOMAIN vision.analysis_results :
                  vision.analysis_results[key] = None
                      => vision.dashboard.tabs[key] = "not available"

\* C29: once a detection has stored its results in the session, every later
\* run renders them with a defined confidence threshold and without an
\* error, also after the uploaded file has been removed.
C29_ResultsAlwaysRender ==
    object_detector.detections # Missing
        => /\ "raises" \notin DOMAIN object_detector.results
           /\ object_detector.results.threshold \in Thresholds

====
